---- MODULE Spec2Model ----
(***************************************************************************)
(* Model of build123d's Mesher (src/src/build123d/mesher.py): the document *)
(* a Mesher owns (unit, mesh list, Lib3MF model), its operations           *)
(* (__init__, add_shape, read, write, add_meta_data, add_code_to_metadata) *)
(* and the write-path pipeline of add_shape (collection, deduplication,    *)
(* orientation correction, degenerate-triangle removal, colouring,        *)
(* validation).                                                            *)
(*                                                                         *)
(* Conventions.  Python indices are kept 0-based as in the source; a       *)
(* Python list is a TLA+ sequence, so element i of list s is s[i + 1].     *)
(* A 3D point is a triple of integers (integer-valued floats).  Calls into *)
(* the OCP kernel and Lib3MF are modelled by their effect on the values    *)
(* the Mesher code reads back.  An operation whose code has loops and      *)
(* unordered-set iteration is an operator returning the SET of its         *)
(* possible results; the action picks one of them.                         *)
(***************************************************************************)
EXTENDS Integers, Sequences, FiniteSets, TLC

(***************************************************************************)
(* Bounds of the model                                                     *)
(***************************************************************************)
\* generated triangulations: most faces, most nodes of a face, most
\* triangles of a face
MaxFaces == 2
MaxNodes == 3
MaxFaceTris == 1
\* most mesh objects the Lib3MF model may hold (guards of add_shape / read)
MaxObjects == 2
\* most shapes passed to one add_shape call
MaxBatch == 2
\* most metadata entries
MaxMeta == 1
\* most calls made on the file system and the Mesher in one behaviour
MaxCalls == 4

(***************************************************************************)
(* Generic helpers                                                         *)
(***************************************************************************)
Range(s) == {s[i] : i \in 1..Len(s)}

\* Python: s.index(x) -- 0-based position of the first element equal to x
IndexOf(s, x) == (CHOOSE i \in 1..Len(s) : s[i] = x /\ \A j \in 1..(i-1) : s[j] # x) - 1

\* every ordering of a finite set: what list(set(...)) may return
Orderings(S) ==
    {f \in [1..Cardinality(S) -> S] : \A i, j \in 1..Cardinality(S) : i # j => f[i] # f[j]}

RECURSIVE Concat(_)
Concat(ss) == IF ss = <<>> THEN <<>> ELSE Head(ss) \o Concat(Tail(ss))

SeqsUpTo(S, n) == UNION {[1..k -> S] : k \in 0..n}

(***************************************************************************)
(* Vectors (gp_Pnt / gp_Vec / Vector)                                      *)
(***************************************************************************)
VSub(a, b) == <<a[1] - b[1], a[2] - b[2], a[3] - b[3]>>
VDot(a, b) == a[1] * b[1] + a[2] * b[2] + a[3] * b[3]
VCross(a, b) ==
    <<a[2] * b[3] - a[3] * b[2], a[3] * b[1] - a[1] * b[3], a[1] * b[2] - a[2] * b[1]>>
VZero == <<0, 0, 0>>

(***************************************************************************)
(* Numeric conversions                                                     *)
(***************************************************************************)
\* largest magnitude below which every integer is a C float (24-bit mantissa)
FloatExactLimit == 16777216

\* ctypes.c_float of an integer-valued double x, 0 <= x < 2 * FloatExactLimit:
\* exact up to the limit, above it rounded to the nearest multiple of 2,
\* ties to the even mantissa
ToFloat32(x) ==
    IF x <= FloatExactLimit \/ x % 2 = 0 THEN x
    ELSE IF ((x - 1) \div 2) % 2 = 0 THEN x - 1 ELSE x + 1

PositionOf(pnt) == <<ToFloat32(pnt[1]), ToFloat32(pnt[2]), ToFloat32(pnt[3])>>

\* wrapper.FloatRGBAToColor: float channels in [0,1] to 8-bit channels
\* (channels of the model are 0 or 1, so the product is exact)
FloatRGBAToColor(rgba) == [i \in 1..4 |-> rgba[i] * 255]

\* read: 8-bit channels back to [0,1]; the files of the model carry channels
\* 0 and 255 only, for which c / 255.0 is the integer below
ColorFrom8Bit(c) == [i \in 1..4 |-> c[i] \div 255]

(***************************************************************************)
(* Units                                                                   *)
(***************************************************************************)
Units == {"MC", "MM", "CM", "IN", "FT", "M"}

map_b3d_to_3mf_unit(u) ==
    CASE u = "MC" -> "MicroMeter" [] u = "MM" -> "MilliMeter" [] u = "CM" -> "CentiMeter"
      [] u = "IN" -> "Inch" [] u = "FT" -> "Foot" [] u = "M" -> "Meter"

map_3mf_to_b3d_unit(m) == CHOOSE u \in Units : map_b3d_to_3mf_unit(u) = m

(***************************************************************************)
(* add_shape, write path, per shape                                        *)
(***************************************************************************)
\* lines 322-339: concatenate the nodes of the faces and shift each face's
\* 1-based triangle indices by the number of nodes of the faces before it
RECURSIVE CollectFaces(_, _, _, _)
CollectFaces(faces, verts, tris, offset) ==
    IF faces = <<>> THEN [verts |-> verts, tris |-> tris]
    ELSE LET f == Head(faces)
             shifted == [k \in 1..Len(f.tris) |->
                            [i \in 1..3 |-> f.tris[k][i] + offset - 1]]
         IN CollectFaces(Tail(faces), verts \o f.nodes, tris \o shifted,
                         offset + Len(f.nodes))

\* line 341: the degenerate-shape test
IsDegenerateShape(raw) == Len(raw.verts) < 3 \/ raw.tris = <<>>

\* the raw list taken as it is, without going through a set
UniqueVerticesNoSet(verts) == {verts}

\* line 346: list(set(ocp_mesh_vertices)) -- the distinct points in the
\* iteration order of a Python set, which the program does not control
UniqueVertices(verts) == Orderings(Range(verts))

\* lines 347-349: raw position -> index in unique_vertices
VertTable(verts, unique) == [i \in 0..(Len(verts) - 1) |-> IndexOf(unique, verts[i + 1])]

\* a test that also takes a normal at a right angle to the centre for forward
FacetOutcomesForwardAt90(points, shape_center) ==
    LET normal == VCross(VSub(points[2], points[1]), VSub(points[3], points[1]))
        toCenter == VSub(shape_center, points[1])
    IN IF normal = VZero THEN {"raise", "forward", "backward"}
       ELSE IF toCenter = VZero THEN {"raise"}
       ELSE IF VDot(normal, toCenter) <= 0 THEN {"forward"} ELSE {"backward"}

\* lines 282-298: _is_facet_forward.  The planar face through the 3 points has
\* its normal by the right-hand rule of the polygon; the normal is evaluated at
\* points[0].  With coincident or collinear points there is no plane and the
\* kernel's answer is not defined by the code: any outcome.  gp_Vec.Angle
\* raises for a null vector.
FacetOutcomes(points, shape_center) ==
    LET normal == VCross(VSub(points[2], points[1]), VSub(points[3], points[1]))
        toCenter == VSub(shape_center, points[1])
    IN IF normal = VZero THEN {"raise", "forward", "backward"}
       ELSE IF toCenter = VZero THEN {"raise"}
       ELSE IF VDot(normal, toCenter) < 0 THEN {"forward"} ELSE {"backward"}

\* the two orders taken the other way round
FacetOrderInverted(outcome) == IF outcome = "forward" THEN <<0, 2, 1>> ELSE <<0, 1, 2>>

\* lines 383-387
FacetOrder(outcome) == IF outcome = "forward" THEN <<0, 1, 2>> ELSE <<0, 2, 1>>

\* a degenerate filter that lets every triangle through
KeepTriangleAlways(mapped) == TRUE

\* line 393: the triangle is kept when its 3 mapped indices are distinct
KeepTriangle(mapped) == Cardinality(Range(mapped)) = 3

\* lines 376-397: the triangle loop; each result is the list handed to
\* SetGeometry, or the exception that left the loop
RECURSIVE TriangleLoop(_, _, _, _)
TriangleLoop(triangles, vert_table, gp_pnts, shape_center) ==
    IF triangles = <<>> THEN {[exc |-> "none", tris |-> <<>>]}
    ELSE LET vertex_indices == Head(triangles)
             triangle_points == [i \in 1..3 |-> gp_pnts[vert_table[vertex_indices[i]] + 1]]
         IN UNION {
              IF o = "raise" THEN {[exc |-> "KernelError", tris |-> <<>>]}
              ELSE LET order == FacetOrder(o)
                       ordered_indices == [i \in 1..3 |-> vertex_indices[order[i] + 1]]
                       mapped_indices == [i \in 1..3 |-> vert_table[ordered_indices[i]]]
                       kept == IF KeepTriangle(mapped_indices)
                               THEN <<mapped_indices>> ELSE <<>>
                   IN {[exc |-> r.exc, tris |-> IF r.exc = "none" THEN kept \o r.tris ELSE <<>>] :
                        r \in TriangleLoop(Tail(triangles), vert_table, gp_pnts, shape_center)}
              : o \in FacetOutcomes(triangle_points, shape_center)}

\* line 420: structural validity of a mesh object (buffers non-empty, every
\* index in range)
IsValid(mesh) ==
    /\ mesh.verts # <<>>
    /\ mesh.tris # <<>>
    /\ \A k \in 1..Len(mesh.tris) : \A i \in 1..3 :
          mesh.tris[k][i] >= 0 /\ mesh.tris[k][i] < Len(mesh.verts)

\* line 422: every directed edge occurs once and its reverse occurs once
DirectedEdges(tris) ==
    {<<k, i>> : k \in 1..Len(tris), i \in 1..3}
EdgeOf(tris, e) == <<tris[e[1]][e[2]], tris[e[1]][(e[2] % 3) + 1]>>
IsManifoldAndOriented(mesh) ==
    \A e \in DirectedEdges(mesh.tris) :
        LET ab == EdgeOf(mesh.tris, e)
        IN /\ Cardinality({d \in DirectedEdges(mesh.tris) : EdgeOf(mesh.tris, d) = ab}) = 1
           /\ Cardinality({d \in DirectedEdges(mesh.tris) :
                              EdgeOf(mesh.tris, d) = <<ab[2], ab[1]>>}) = 1

(***************************************************************************)
(* The Lib3MF model as the Mesher uses it                                  *)
(***************************************************************************)
NoProperty == [rid |-> 0, pids |-> <<0, 0, 0>>]
NoObjectProperty == [rid |-> 0, pid |-> 0]

\* wrapper.CreateModel() followed by SetUnit (lines 146-147)
CreateModel(u) ==
    [unit |-> map_b3d_to_3mf_unit(u), objects |-> <<>>, colorGroups |-> <<>>,
     components |-> <<>>, buildItems |-> <<>>, metadata |-> <<>>, nextId |-> 1]

\* model.AddMeshObject() and the metadata set on it (lines 352-361, with the
\* default mesh_type and no part number or uuid); the new object is the last
NewMeshObject(m, label) ==
    [m EXCEPT !.objects = Append(@, [id |-> m.nextId, type |-> "Model",
                                     name |-> label, verts |-> <<>>, tris |-> <<>>,
                                     props |-> <<>>, objProp |-> NoObjectProperty]),
              !.nextId = @ + 1]

\* a change of the model's last mesh object (the one add_shape is building)
SetGeometry(m, verts, tris) ==
    [m EXCEPT !.objects[Len(m.objects)].verts = verts,
              !.objects[Len(m.objects)].tris = tris,
              !.objects[Len(m.objects)].props = [k \in 1..Len(tris) |-> NoProperty]]

\* lines 404-407: a new colour group holding the shape's one colour;
\* AddColor returns the property id of the colour, its position in the group
AddColorGroup(m, rgba) ==
    [m EXCEPT !.colorGroups = Append(@, [id |-> m.nextId,
                                         colors |-> <<FloatRGBAToColor(rgba)>>]),
              !.nextId = @ + 1]

\* lines 408-414: the same property on the 3 corners of every triangle
SetAllTriangleProperties(m, rid, color_index) ==
    [m EXCEPT !.objects[Len(m.objects)].props =
        [k \in 1..Len(m.objects[Len(m.objects)].tris) |->
            [rid |-> rid, pids |-> <<color_index, color_index, color_index>>]]]

\* line 417
SetObjectLevelProperty(m, rid, color_index) ==
    [m EXCEPT !.objects[Len(m.objects)].objProp = [rid |-> rid, pid |-> color_index]]

\* lines 426-431: build item and components object for the finished mesh
AddBuildItemAndComponent(m) ==
    LET mesh_id == m.objects[Len(m.objects)].id
    IN [m EXCEPT !.buildItems = Append(@, mesh_id),
                 !.components = Append(@, [id |-> m.nextId, mesh |-> mesh_id]),
                 !.nextId = @ + 1]

(***************************************************************************)
(* add_shape                                                               *)
(***************************************************************************)
NoColor == <<>>
Unbound == [bound |-> FALSE, rid |-> 0, index |-> 0]

\* lines 300-306: one level of Compound is expanded into its children; the
\* shapes are references into the heap of Python objects
RECURSIVE FlattenShapes(_, _)
FlattenShapes(heap, input_shapes) ==
    IF input_shapes = <<>> THEN <<>>
    ELSE (IF heap[Head(input_shapes)].compound THEN heap[Head(input_shapes)].children
          ELSE <<Head(input_shapes)>>) \o FlattenShapes(heap, Tail(input_shapes))

\* no copy: the local ocp_mesh is the caller's object
NoCopy(heap, ref) == [heap |-> heap, ref |-> ref]

\* line 313: copy.deepcopy(shape) -- a new object, equal to the shape, in the
\* slot 0 of the heap that holds the local ocp_mesh
DeepCopy(heap, ref) == [heap |-> [heap EXCEPT ![0] = heap[ref]], ref |-> 0]

\* lines 314-320: BRepMesh_IncrementalMesh stores the triangulation in the
\* shape object it is given
IncrementalMesh(heap, ref) == [heap EXCEPT ![ref].meshed = TRUE]

\* a colour step that keeps using the colour group made for an earlier shape
ColorStepReuse(st, loc, color) ==
    LET fresh == color # NoColor /\ ~loc.bound
        m1 == IF fresh
              THEN SetAllTriangleProperties(AddColorGroup(st.model, color),
                                            st.model.nextId, 1)
              ELSE IF color # NoColor
              THEN SetAllTriangleProperties(st.model, loc.rid, loc.index)
              ELSE st.model
        loc1 == IF fresh THEN [bound |-> TRUE, rid |-> st.model.nextId, index |-> 1]
                ELSE loc
    IN IF ~loc1.bound
       THEN [st |-> [st EXCEPT !.model = m1], loc |-> loc1, exc |-> "UnboundLocalError"]
       ELSE [st |-> [st EXCEPT !.model = SetObjectLevelProperty(m1, loc1.rid, loc1.index)],
             loc |-> loc1, exc |-> "none"]

\* lines 402-417 for one shape: st is [model, meshes, warns, heap], loc the binding
\* of the function's locals color_group / color_index, which outlives one
\* loop iteration.  Line 417 is outside the "if shape.color" block.
ColorStep(st, loc, color) ==
    LET m1 == IF color # NoColor
              THEN SetAllTriangleProperties(AddColorGroup(st.model, color),
                                            st.model.nextId, 1)
              ELSE st.model
        loc1 == IF color # NoColor
                THEN [bound |-> TRUE, rid |-> st.model.nextId, index |-> 1]
                ELSE loc
    IN IF ~loc1.bound
       THEN [st |-> [st EXCEPT !.model = m1], loc |-> loc1, exc |-> "UnboundLocalError"]
       ELSE [st |-> [st EXCEPT !.model = SetObjectLevelProperty(m1, loc1.rid, loc1.index)],
             loc |-> loc1, exc |-> "none"]

\* a check that warns about a mesh that is not manifold and leaves it out of
\* the document
CheckAndAddManifoldOnly(st) ==
    LET mesh_3mf == st.model.objects[Len(st.model.objects)]
    IN IF ~IsValid(mesh_3mf) THEN [st |-> st, exc |-> "RuntimeError"]
       ELSE IF ~IsManifoldAndOriented(mesh_3mf)
       THEN [st |-> [st EXCEPT !.warns = Append(st.warns, "not manifold")], exc |-> "none"]
       ELSE [st |-> [st EXCEPT !.model = AddBuildItemAndComponent(st.model),
                               !.meshes = Append(st.meshes, mesh_3mf.id)],
             exc |-> "none"]

\* lines 419-431 for one shape
CheckAndAdd(st) ==
    LET mesh_3mf == st.model.objects[Len(st.model.objects)]
    IN IF ~IsValid(mesh_3mf) THEN [st |-> st, exc |-> "RuntimeError"]
       ELSE [st |-> [st EXCEPT !.model = AddBuildItemAndComponent(st.model),
                               !.meshes = Append(st.meshes, mesh_3mf.id),
                               !.warns = IF IsManifoldAndOriented(mesh_3mf) THEN st.warns
                                         ELSE Append(st.warns, "not manifold")],
             exc |-> "none"]

\* lines 311-431: the body of the loop for one shape; the set of its results
ShapeStep(st0, loc, shape_ref) ==
    LET shape == st0.heap[shape_ref]
        copied == DeepCopy(st0.heap, shape_ref)
        st == [st0 EXCEPT !.heap = IncrementalMesh(copied.heap, copied.ref)]
        ocp_mesh == st.heap[copied.ref]
        raw == CollectFaces(ocp_mesh.faces, <<>>, <<>>, 0)
    IN IF IsDegenerateShape(raw)
       THEN {[st |-> [st EXCEPT !.warns = Append(@, "degenerate")], loc |-> loc,
              exc |-> "none"]}
       ELSE UNION {
          LET vert_table == VertTable(raw.verts, unique_vertices)
              m1 == NewMeshObject(st.model, shape.label)
              vertices_3mf == [i \in 1..Len(unique_vertices) |->
                                  PositionOf(unique_vertices[i])]
          IN { IF t.exc # "none"
               THEN [st |-> [st EXCEPT !.model = m1], loc |-> loc, exc |-> t.exc]
               ELSE LET st2 == [st EXCEPT !.model = SetGeometry(m1, vertices_3mf, t.tris)]
                        c == ColorStep(st2, loc, shape.color)
                    IN IF c.exc # "none" THEN c
                       ELSE LET a == CheckAndAdd(c.st)
                            IN [st |-> a.st, loc |-> c.loc, exc |-> a.exc]
               : t \in TriangleLoop(raw.tris, vert_table, unique_vertices, shape.center) }
          : unique_vertices \in UniqueVertices(raw.verts) }

\* line 310: the loop over the shapes; an exception leaves the loop
RECURSIVE ShapeLoop(_, _, _)
ShapeLoop(st, loc, shapes) ==
    IF shapes = <<>> THEN {[st |-> st, exc |-> "none"]}
    ELSE UNION { IF r.exc # "none" THEN {[st |-> r.st, exc |-> r.exc]}
                 ELSE ShapeLoop(r.st, r.loc, Tail(shapes))
                 : r \in ShapeStep(st, loc, Head(shapes)) }

\* add_shape(shape): every possible result [st, exc] of the call
add_shape(model0, meshes0, heap0, input_shapes) ==
    ShapeLoop([model |-> model0, meshes |-> meshes0, warns |-> <<>>, heap |-> heap0],
              Unbound, FlattenShapes(heap0, input_shapes))

(***************************************************************************)
(* File names and the file system                                          *)
(***************************************************************************)
\* a file name is a sequence of characters
Path3mf == <<"a", ".", "3", "m", "f">>
PathStlUpper == <<"b", ".", "S", "T", "L">>
PathObj == <<"m", "o", "d", "e", "l", ".", "o", "b", "j">>
PathNoDot == <<"s", "t", "l">>
PathBak == <<"a", ".", "3", "m", "f", ".", "b", "a", "k">>
PathInch == <<"i", "n", ".", "3", "m", "f">>
PathPlain == <<"p", ".", "3", "M", "F">>
Paths == {Path3mf, PathStlUpper, PathObj, PathNoDot, PathBak, PathInch, PathPlain}

\* str.lower() on the characters the file names use
LowerChar(c) ==
    CASE c = "S" -> "s" [] c = "T" -> "t" [] c = "L" -> "l" [] c = "M" -> "m"
      [] c = "F" -> "f" [] OTHER -> c
Lower(s) == [i \in 1..Len(s) |-> LowerChar(s[i])]

\* str.split(sep): the pieces between the separators, at least one piece
RECURSIVE SplitFrom(_, _, _, _)
SplitFrom(s, sep, cur, acc) ==
    IF s = <<>> THEN Append(acc, cur)
    ELSE IF Head(s) = sep THEN SplitFrom(Tail(s), sep, <<>>, Append(acc, cur))
    ELSE SplitFrom(Tail(s), sep, Append(cur, Head(s)), acc)
Split(s, sep) == SplitFrom(s, sep, <<>>, <<>>)

\* the second piece of the name instead of the last one
FileFormatSecondPiece(file_name) ==
    LET pieces == Split(file_name, ".") IN Lower(pieces[IF Len(pieces) >= 2 THEN 2 ELSE 1])

\* lines 475 and 522: file_name.split(".")[-1].lower()
FileFormat(file_name) ==
    LET pieces == Split(file_name, ".") IN Lower(pieces[Len(pieces)])

Fmt3mf == <<"3", "m", "f">>
FmtStl == <<"s", "t", "l">>
\* lines 476 and 523
SupportedFormats == {Fmt3mf, FmtStl}

NoFile == [fmt |-> "none"]

(***************************************************************************)
(* Lib3MF writer and reader                                                *)
(*                                                                         *)
(* write and read hand the file over to the Lib3MF library (lines 526 and  *)
(* 479), whose code is not part of this repository.  The operators of this *)
(* section stand for the library: a file is what the writer was given, as  *)
(* far as the format can hold it, and the reader adds it to the model.     *)
(* They let read and write run; what a mesh looks like after a trip        *)
(* through a file is the library's doing, and no property below is about   *)
(* it.                                                                     *)
(***************************************************************************)
ObjectById(m, id) == CHOOSE o \in Range(m.objects) : o.id = id

\* the corners of a mesh's triangles as positions
TriangleSoup(mesh) ==
    [k \in 1..Len(mesh.tris) |-> [i \in 1..3 |-> mesh.verts[mesh.tris[k][i] + 1]]]

\* writer.WriteToFile (line 526), taken from the formats: a 3MF file holds
\* resources, build items, metadata and unit; an STL file holds triangles,
\* each as 3 positions
WriteToFile(m, fmt) ==
    IF fmt = Fmt3mf
    THEN [fmt |-> "3mf", model |-> m, soup |-> <<>>]
    ELSE [fmt |-> "stl", model |-> <<>>,
          soup |-> Concat([k \in 1..Len(m.buildItems) |->
                             TriangleSoup(ObjectById(m, m.buildItems[k]))])]

\* resource ids of a file are renumbered behind those of the reading model
ShiftId(id, off) == IF id = 0 THEN 0 ELSE id + off
ShiftObject(o, off) ==
    [o EXCEPT !.id = ShiftId(@, off),
              !.props = [k \in 1..Len(o.props) |->
                            [rid |-> ShiftId(o.props[k].rid, off), pids |-> o.props[k].pids]],
              !.objProp = [rid |-> ShiftId(o.objProp.rid, off), pid |-> o.objProp.pid]]

\* the 3MF reader, as the library is taken to work: the file's resources are
\* added behind those the model holds
Read3mf(m, f) ==
    LET off == m.nextId - 1
    IN [unit |-> f.unit,
        objects |-> m.objects \o [k \in 1..Len(f.objects) |-> ShiftObject(f.objects[k], off)],
        colorGroups |-> m.colorGroups \o
            [k \in 1..Len(f.colorGroups) |->
                [f.colorGroups[k] EXCEPT !.id = ShiftId(@, off)]],
        components |-> m.components \o
            [k \in 1..Len(f.components) |->
                [id |-> ShiftId(f.components[k].id, off),
                 mesh |-> ShiftId(f.components[k].mesh, off)]],
        buildItems |-> m.buildItems \o
            [k \in 1..Len(f.buildItems) |-> ShiftId(f.buildItems[k], off)],
        metadata |-> m.metadata \o f.metadata,
        nextId |-> m.nextId + (f.nextId - 1)]

\* the STL reader, as the library is taken to work: one mesh object; a corner
\* is a new vertex unless a vertex with the same position exists; a triangle
\* whose corners are not 3 distinct vertices is left out
RECURSIVE SoupVertices(_, _)
SoupVertices(corners, verts) ==
    IF corners = <<>> THEN verts
    ELSE SoupVertices(Tail(corners),
                      IF Head(corners) \in Range(verts) THEN verts
                      ELSE Append(verts, Head(corners)))

ReadStl(m, soup) ==
    LET verts == SoupVertices(Concat(soup), <<>>)
        indexed == [k \in 1..Len(soup) |-> [i \in 1..3 |-> IndexOf(verts, soup[k][i])]]
        tris == SelectSeq(indexed, KeepTriangle)
    IN [m EXCEPT !.objects = Append(@, [id |-> m.nextId, type |-> "Model", name |-> "",
                                        verts |-> verts, tris |-> tris,
                                        props |-> [k \in 1..Len(tris) |-> NoProperty],
                                        objProp |-> NoObjectProperty]),
                 !.buildItems = Append(@, m.nextId),
                 !.nextId = @ + 1]

\* reader.ReadFromFile (line 479): the file's content is added to the model
ReadFromFile(m, file) ==
    IF file.fmt = "3mf" THEN Read3mf(m, file.model) ELSE ReadStl(m, file.soup)

\* mesh objects a reader adds to the model: those of a 3MF file, one for an
\* STL file, none when there is no file to read
NumObjectsIn(file) ==
    IF file.fmt = "3mf" THEN Len(file.model.objects)
    ELSE IF file.fmt = "stl" THEN 1 ELSE 0

\* the unit a file gives the model that reads it: an STL file has none and
\* the model keeps its own
UnitAfterReading(m, file) == ReadFromFile(m, file).unit

(***************************************************************************)
(* read                                                                    *)
(***************************************************************************)
UndirectedEdges(tris) ==
    {{tris[k][i], tris[k][(i % 3) + 1]} : k \in 1..Len(tris), i \in 1..3}

\* a triangle of the mesh whose 3 positions span no plane
FlatTriangle(mesh, t) ==
    VCross(VSub(mesh.verts[t[2] + 1], mesh.verts[t[1] + 1]),
           VSub(mesh.verts[t[3] + 1], mesh.verts[t[1] + 1])) = VZero

\* lines 433-461: _get_shape, the set of its results.  Sewing no face at all
\* gives a null shape, which downcast rejects; the face builder's answer for
\* 3 positions that span no plane is not defined by the code (a face or an
\* exception); a sewn shell whose every edge joins two triangles is promoted
\* to a Solid.
GetShape(mesh) ==
    IF mesh.tris = <<>> THEN {[exc |-> "KernelError", kind |-> "none"]}
    ELSE {[exc |-> "none",
           kind |-> IF \A e \in UndirectedEdges(mesh.tris) :
                          Cardinality({<<k, i>> \in DirectedEdges(mesh.tris) :
                             {mesh.tris[k][i], mesh.tris[k][(i % 3) + 1]} = e}) = 2
                    THEN "Solid" ELSE "Shell"]}
         \cup (IF \E k \in 1..Len(mesh.tris) : FlatTriangle(mesh, mesh.tris[k])
               THEN {[exc |-> "KernelError", kind |-> "none"]} ELSE {})

\* lines 493-500: the (ResourceID, PropertyID) pair of every corner, in
\* triangle order and corner order
ColorIndices(mesh) ==
    Concat([k \in 1..Len(mesh.props) |->
              [i \in 1..3 |-> <<mesh.props[k].rid, mesh.props[k].pids[i]>>]])

\* lines 504-505: model.GetColorGroupByID(id).GetColor(index)
HasColor(m, pair) ==
    \E g \in Range(m.colorGroups) : g.id = pair[1] /\ pair[2] \in 1..Len(g.colors)
GetColor(m, pair) ==
    (CHOOSE g \in Range(m.colorGroups) : g.id = pair[1]).colors[pair[2]]

\* lines 490-509 for one mesh: the set of results [exc, shape, warn]
MeshToShape(m, mesh) ==
    LET color_indices == ColorIndices(mesh)
    IN UNION {
         IF g.exc # "none" THEN {[exc |-> g.exc, shape |-> <<>>, warn |-> FALSE]}
         ELSE IF color_indices = <<>>
         THEN {[exc |-> "IndexError", shape |-> <<>>, warn |-> FALSE]}
         ELSE { IF ~HasColor(m, unique_color_indices[1])
                THEN [exc |-> "Lib3MFError", shape |-> <<>>,
                      warn |-> Len(unique_color_indices) > 1]
                ELSE [exc |-> "none",
                      shape |-> [label |-> mesh.name, kind |-> g.kind,
                                 color |-> ColorFrom8Bit(GetColor(m, unique_color_indices[1]))],
                      warn |-> Len(unique_color_indices) > 1]
                : unique_color_indices \in Orderings(Range(color_indices)) }
         : g \in GetShape(mesh) }

\* lines 489-509: the loop over self.meshes
RECURSIVE MeshLoop(_, _, _, _)
MeshLoop(m, mesh_ids, shapes, warns) ==
    IF mesh_ids = <<>> THEN {[exc |-> "none", shapes |-> shapes, warns |-> warns]}
    ELSE UNION {
           LET w == IF r.warn THEN Append(warns, "multiple colors") ELSE warns
           IN IF r.exc # "none" THEN {[exc |-> r.exc, shapes |-> <<>>, warns |-> w]}
              ELSE MeshLoop(m, Tail(mesh_ids), Append(shapes, r.shape), w)
           : r \in MeshToShape(m, ObjectById(m, Head(mesh_ids))) }

\* lines 483-487: every mesh object of the model is appended to self.meshes
CollectMeshes(m, meshes0) ==
    meshes0 \o [k \in 1..Len(m.objects) |-> m.objects[k].id]

\* read(file_name): every possible result of the call, as the Mesher's state
\* after it, the exception raised and the list returned
read(unit0, model0, meshes0, files0, file_name) ==
    LET unchanged == [unit |-> unit0, model |-> model0, meshes |-> meshes0,
                      shapes |-> <<>>, warns |-> <<>>]
    IN IF FileFormat(file_name) \notin SupportedFormats
       THEN {unchanged @@ [exc |-> "ValueError"]}
       ELSE IF files0[file_name] = NoFile
       THEN {unchanged @@ [exc |-> "Lib3MFError"]}
       ELSE LET m1 == ReadFromFile(model0, files0[file_name])
                meshes1 == CollectMeshes(m1, meshes0)
            IN { [unit |-> map_3mf_to_b3d_unit(m1.unit), model |-> m1, meshes |-> meshes1,
                  shapes |-> r.shapes, warns |-> r.warns, exc |-> r.exc]
                 : r \in MeshLoop(m1, meshes1, <<>>, <<>>) }

\* write(file_name): the file system after the call and the exception raised
write(model0, files0, file_name) ==
    IF FileFormat(file_name) \notin SupportedFormats
    THEN [files |-> files0, exc |-> "ValueError"]
    ELSE [files |-> [files0 EXCEPT ![file_name] = WriteToFile(model0, FileFormat(file_name))],
          exc |-> "none"]

\* line 197: model.GetMetaDataGroup() gives the group of the model or None;
\* which of the two is the library's choice
MetaDataGroups == {"model", "none"}

\* line 200: model.AddComponentsObject(), a components object without any
\* component
AddComponentsObject(m) ==
    [m EXCEPT !.components = Append(@, [id |-> m.nextId, mesh |-> 0]),
              !.nextId = @ + 1]

\* lines 196-204: add_meta_data; without a group of the model the entry goes
\* to the group of a new components object.  "metadata" lists the entries of
\* the document in the order they were added.
add_meta_data(model0, entry, mdg) ==
    LET m1 == IF mdg = "none" THEN AddComponentsObject(model0) ELSE model0
    IN [m1 EXCEPT !.metadata = Append(@, entry)]

\* the source files of the callers: co_filename as its path components, and
\* the text open() and read() give; code typed at the prompt has no file
CallerScript == <<"proj", "script.py">>
CallerStdin == <<"<stdin>">>
CallerFiles == {CallerScript, CallerStdin}
NoSource == "no such file"
SourceCode(caller_file) ==
    IF caller_file = CallerScript THEN "from build123d import *" ELSE NoSource

\* os.path.basename
Basename(path) == path[Len(path)]

\* lines 206-221: add_code_to_metadata; open() of line 211 raises when the
\* caller's file cannot be opened
add_code_to_metadata(model0, caller_file, mdg) ==
    IF SourceCode(caller_file) = NoSource THEN [model |-> model0, exc |-> "OSError"]
    ELSE [model |-> add_meta_data(model0,
                       [name_space |-> "build123d", name |-> Basename(caller_file),
                        value |-> SourceCode(caller_file), metadata_type |-> "python",
                        must_preserve |-> FALSE], mdg),
          exc |-> "none"]

(***************************************************************************)
(* The caller's shapes and the files that exist before the program runs    *)
(***************************************************************************)
P0 == <<0, 0, 0>>
P1 == <<6, 0, 0>>
P2 == <<0, 6, 0>>
\* three points of which the first two differ as doubles and agree as floats
Q0 == <<FloatExactLimit, 0, 0>>
Q1 == <<FloatExactLimit + 1, 0, 0>>
Q2 == <<FloatExactLimit, 6, 0>>

Red == <<1, 0, 0, 1>>
Blue == <<0, 0, 1, 1>>

Solid(label, color, center, faces) ==
    [compound |-> FALSE, children |-> <<>>, label |-> label, color |-> color,
     center |-> center, faces |-> faces, meshed |-> FALSE]
Face(nodes, tris) == [nodes |-> nodes, tris |-> tris]

NoShape == [none |-> TRUE]

\* the objects the caller holds; "faces" is the triangulation the kernel
\* computes for the shape (per face: nodes and 1-based index triples)
CallerShapes ==
    <<  \* 1: one triangle, no colour, no label
        Solid("", NoColor, <<2, 2, 0>>, <<Face(<<P0, P1, P2>>, <<<<1, 2, 3>>>>)>>),
        \* 2: one triangle, red
        Solid("red", Red, <<2, 2, 0>>, <<Face(<<P0, P1, P2>>, <<<<1, 2, 3>>>>)>>),
        \* 3: two faces over the same three points, opposite windings, blue
        Solid("blue", Blue, <<2, 2, 0>>,
              <<Face(<<P0, P1, P2>>, <<<<1, 2, 3>>>>), Face(<<P0, P2, P1>>, <<<<1, 2, 3>>>>)>>),
        \* 4: a triangle two nodes of which coincide: every triangle is dropped
        Solid("flat", Blue, <<3, 0, 0>>, <<Face(<<P0, P1, P1>>, <<<<1, 2, 3>>>>)>>),
        \* 5: a thin triangle whose short edge is below float precision, red
        Solid("thin", Red, <<FloatExactLimit, 2, 0>>,
              <<Face(<<Q0, Q1, Q2>>, <<<<1, 2, 3>>>>)>>),
        \* 6: a shape the kernel gives no triangle for
        Solid("", NoColor, <<3, 0, 0>>, <<Face(<<P0, P1>>, <<>>)>>),
        \* 7: a Compound of shapes 2 and 3
        [compound |-> TRUE, children |-> <<2, 3>>, label |-> "", color |-> NoColor,
         center |-> <<2, 2, 0>>, faces |-> <<>>, meshed |-> FALSE] >>

InitialHeap == [r \in 0..Len(CallerShapes) |-> IF r = 0 THEN NoShape ELSE CallerShapes[r]]

\* what add_shape may be called with: up to MaxBatch references
Batches == UNION {[1..n -> 1..Len(CallerShapes)] : n \in 1..MaxBatch}
\* one reference only
SingleBatches == {b \in Batches : Len(b) = 1}

\* a 3MF file in inches holding one red triangle
AuthoredInchModel ==
    [unit |-> "Inch",
     objects |-> <<[id |-> 1, type |-> "Model", name |-> "inch part",
                    verts |-> <<P0, P1, P2>>, tris |-> <<<<0, 1, 2>>>>,
                    props |-> <<[rid |-> 2, pids |-> <<1, 1, 1>>]>>,
                    objProp |-> [rid |-> 2, pid |-> 1]]>>,
     colorGroups |-> <<[id |-> 2, colors |-> <<<<255, 0, 0, 255>>>>]>>,
     components |-> <<>>, buildItems |-> <<1>>, metadata |-> <<>>, nextId |-> 3]

\* a 3MF file in centimetres holding one triangle without any colour
AuthoredPlainModel ==
    [unit |-> "CentiMeter",
     objects |-> <<[id |-> 1, type |-> "Model", name |-> "plain part",
                    verts |-> <<P0, P1, P2>>, tris |-> <<<<0, 1, 2>>>>,
                    props |-> <<NoProperty>>, objProp |-> NoObjectProperty]>>,
     colorGroups |-> <<>>, components |-> <<>>, buildItems |-> <<1>>,
     metadata |-> <<>>, nextId |-> 2]

\* a 3MF file holding one closed mesh of two triangles whose corners refer to
\* three different colours of two colour groups
AuthoredMixedModel ==
    [unit |-> "MilliMeter",
     objects |-> <<[id |-> 1, type |-> "Model", name |-> "mixed part",
                    verts |-> <<P0, P1, P2>>, tris |-> <<<<0, 1, 2>>, <<0, 2, 1>>>>,
                    props |-> <<[rid |-> 2, pids |-> <<2, 1, 1>>],
                                [rid |-> 3, pids |-> <<1, 1, 1>>]>>,
                    objProp |-> NoObjectProperty]>>,
     colorGroups |-> <<[id |-> 2, colors |-> <<<<255, 0, 0, 255>>, <<0, 0, 255, 255>>>>],
                       [id |-> 3, colors |-> <<<<0, 255, 0, 255>>>>]>>,
     components |-> <<>>, buildItems |-> <<1>>, metadata |-> <<>>, nextId |-> 4]

AuthoredFile(m) == [fmt |-> "3mf", model |-> m, soup |-> <<>>]

InitialFiles ==
    [p \in Paths |-> IF p = PathInch THEN AuthoredFile(AuthoredInchModel)
                     ELSE IF p = PathPlain THEN AuthoredFile(AuthoredPlainModel)
                     ELSE NoFile]

CtorUnits == {"MM", "IN"}
MetaEntries == {[name_space |-> "build123d", name |-> "k", value |-> "v",
                 metadata_type |-> "python", must_preserve |-> FALSE]}

(***************************************************************************)
(* State                                                                   *)
(***************************************************************************)
VARIABLES
    unit,     \* self.unit
    model,    \* self.model, the Lib3MF model
    meshes,   \* self.meshes: ids of mesh objects of the model, in list order
    files,    \* the file system: file name -> content
    heap,     \* the caller's shape objects (and the private copy, slot 0)
    last,     \* the last call: operation, argument, exception, result, and the
              \* Mesher's state before it
    hist,     \* unit given at construction and unit of the file last read
              \* without an exception since then
    calls     \* number of calls made

vars == <<unit, model, meshes, files, heap, last, hist, calls>>

\* the read-only properties of the Mesher
model_unit == unit
mesh_count == Len(model.objects)
triangle_counts == [k \in 1..Len(meshes) |-> Len(ObjectById(model, meshes[k]).tris)]
vertex_counts == [k \in 1..Len(meshes) |-> Len(ObjectById(model, meshes[k]).verts)]

Snapshot == [unit |-> unit, model |-> model, meshes |-> meshes]

NoHistory == [ctorUnit |-> "MM", readUnit |-> "none"]

Call(op, arg, exc, ret, warns) ==
    [op |-> op, arg |-> arg, exc |-> exc, ret |-> ret, warns |-> warns, pre |-> Snapshot]

\* __init__ (lines 142-148)
Construct(u) ==
    /\ calls < MaxCalls
    /\ unit' = u
    /\ model' = CreateModel(u)
    /\ meshes' = <<>>
    /\ hist' = [hist EXCEPT !.ctorUnit = u, !.readUnit = "none"]
    /\ last' = Call("construct", <<>>, "none", <<>>, <<>>)
    /\ calls' = calls + 1
    /\ UNCHANGED <<files, heap>>

Init ==
    /\ unit = "MM"
    /\ model = CreateModel("MM")
    /\ meshes = <<>>
    /\ files = InitialFiles
    /\ heap = InitialHeap
    /\ hist = NoHistory
    /\ last = [op |-> "construct", arg |-> <<>>, exc |-> "none", ret |-> <<>>,
               warns |-> <<>>,
               pre |-> [unit |-> "MM", model |-> CreateModel("MM"), meshes |-> <<>>]]
    /\ calls = 0

\* add_shape (lines 255-431); the private copy is released when the call ends
AddShape(batch) ==
    /\ calls < MaxCalls
    /\ Len(model.objects) + Len(FlattenShapes(heap, batch)) <= MaxObjects
    /\ \E r \in add_shape(model, meshes, heap, batch) :
          /\ model' = r.st.model
          /\ meshes' = r.st.meshes
          /\ heap' = [r.st.heap EXCEPT ![0] = NoShape]
          /\ last' = Call("add_shape", batch, r.exc, <<>>, r.st.warns)
    /\ calls' = calls + 1
    /\ UNCHANGED <<unit, files, hist>>

\* read (lines 463-511)
Read(file_name) ==
    /\ calls < MaxCalls
    /\ Len(model.objects) + NumObjectsIn(files[file_name]) <= MaxObjects
    /\ \E r \in read(unit, model, meshes, files, file_name) :
          /\ unit' = r.unit
          /\ model' = r.model
          /\ meshes' = r.meshes
          /\ last' = Call("read", file_name, r.exc, r.shapes, r.warns)
          /\ hist' = IF r.exc = "none"
                     THEN [hist EXCEPT !.readUnit =
                              map_3mf_to_b3d_unit(UnitAfterReading(model, files[file_name]))]
                     ELSE hist
    /\ calls' = calls + 1
    /\ UNCHANGED <<files, heap>>

\* write (lines 513-526)
Write(file_name) ==
    /\ calls < MaxCalls
    /\ LET r == write(model, files, file_name)
       IN /\ files' = r.files
          /\ last' = Call("write", file_name, r.exc, <<>>, <<>>)
    /\ calls' = calls + 1
    /\ UNCHANGED <<unit, model, meshes, heap, hist>>

\* add_meta_data (lines 177-204)
AddMetaData(entry) ==
    /\ calls < MaxCalls
    /\ Len(model.metadata) < MaxMeta
    /\ \E mdg \in MetaDataGroups : model' = add_meta_data(model, entry, mdg)
    /\ last' = Call("add_meta_data", <<>>, "none", <<>>, <<>>)
    /\ calls' = calls + 1
    /\ UNCHANGED <<unit, meshes, files, heap, hist>>

\* add_code_to_metadata (lines 206-221)
AddCodeToMetadata(caller_file) ==
    /\ calls < MaxCalls
    /\ Len(model.metadata) < MaxMeta
    /\ \E mdg \in MetaDataGroups :
          LET r == add_code_to_metadata(model, caller_file, mdg)
          IN /\ model' = r.model
             /\ last' = Call("add_code_to_metadata", caller_file, r.exc, <<>>, <<>>)
    /\ calls' = calls + 1
    /\ UNCHANGED <<unit, meshes, files, heap, hist>>

\* a Mesher used for ingestion, file input and output and metadata, one
\* shape per add_shape call
Next ==
    \/ \E u \in CtorUnits : Construct(u)
    \/ \E batch \in SingleBatches : AddShape(batch)
    \/ \E p \in Paths : Read(p)
    \/ \E p \in Paths : Write(p)
    \/ \E e \in MetaEntries : AddMetaData(e)
    \/ \E c \in CallerFiles : AddCodeToMetadata(c)

Spec == Init /\ [][Next]_vars

\* a Mesher used for ingestion only, several shapes per add_shape call
NextIngest == \E batch \in Batches : AddShape(batch)

SpecIngest == Init /\ [][NextIngest]_vars

(***************************************************************************)
(* One add_shape call on a new Mesher, for every small triangulation       *)
(***************************************************************************)
GenPoints == {P0, P1, P2}

\* the triangulations of one face: up to MaxNodes nodes, up to MaxFaceTris
\* triangles, each over 3 different nodes of the face (nodes may coincide
\* as points)
GenFaces ==
    UNION { { Face(nodes, tris) :
                nodes \in [1..n -> GenPoints],
                tris \in SeqsUpTo({t \in [1..3 -> 1..n] : Cardinality(Range(t)) = 3},
                                  MaxFaceTris) }
            : n \in 1..MaxNodes }

GenShapes ==
    { Solid("gen", Red, <<2, 2, 0>>, faces) :
        faces \in UNION {[1..k -> GenFaces] : k \in 1..MaxFaces} }

InitMesh ==
    /\ unit = "MM"
    /\ model = CreateModel("MM")
    /\ meshes = <<>>
    /\ files = InitialFiles
    /\ \E g \in GenShapes : heap = [r \in 0..1 |-> IF r = 0 THEN NoShape ELSE g]
    /\ hist = NoHistory
    /\ last = [op |-> "construct", arg |-> <<>>, exc |-> "none", ret |-> <<>>,
               warns |-> <<>>,
               pre |-> [unit |-> "MM", model |-> CreateModel("MM"), meshes |-> <<>>]]
    /\ calls = 0

NextMesh == model.objects = <<>> /\ AddShape(<<1>>)

SpecMesh == InitMesh /\ [][NextMesh]_vars

(***************************************************************************)
(* A Mesher used to read files, one of them with several colours on a mesh *)
(***************************************************************************)
InitRead ==
    /\ unit = "MM"
    /\ model = CreateModel("MM")
    /\ meshes = <<>>
    /\ files = [InitialFiles EXCEPT ![Path3mf] = AuthoredFile(AuthoredMixedModel)]
    /\ heap = InitialHeap
    /\ hist = NoHistory
    /\ last = [op |-> "construct", arg |-> <<>>, exc |-> "none", ret |-> <<>>,
               warns |-> <<>>,
               pre |-> [unit |-> "MM", model |-> CreateModel("MM"), meshes |-> <<>>]]
    /\ calls = 0

NextRead ==
    \/ \E u \in CtorUnits : Construct(u)
    \/ \E p \in Paths : Read(p)

SpecRead == InitRead /\ [][NextRead]_vars

(***************************************************************************)
(* add_shape of one shape taken in three steps (deduplication, triangle    *)
(* loop, assembly), for every small triangulation of one face and a centre *)
(* below, in and above the plane of the points                             *)
(***************************************************************************)
StepCenters == {<<2, 2, -1>>, <<2, 2, 0>>, <<2, 2, 1>>}

\* a point on the segment from P0 to P1
PMid == <<3, 0, 0>>
StepPoints == GenPoints \cup {PMid}

\* the triangulations of one face over these points
StepFaces ==
    UNION { { Face(nodes, tris) :
                nodes \in [1..n -> StepPoints],
                tris \in SeqsUpTo({t \in [1..3 -> 1..n] : Cardinality(Range(t)) = 3},
                                  MaxFaceTris) }
            : n \in 1..MaxNodes }

\* the shapes that get past the test of line 341
StepShapes ==
    { g \in { Solid("gen", Red, c, <<f>>) : c \in StepCenters, f \in StepFaces } :
        ~IsDegenerateShape(CollectFaces(g.faces, <<>>, <<>>, 0)) }

InitSteps ==
    /\ unit = "MM"
    /\ model = CreateModel("MM")
    /\ meshes = <<>>
    /\ files = InitialFiles
    /\ \E g \in StepShapes : heap = [r \in 0..1 |-> IF r = 0 THEN NoShape ELSE g]
    /\ hist = NoHistory
    /\ last = [op |-> "construct", arg |-> <<>>, exc |-> "none", ret |-> <<>>,
               warns |-> <<>>,
               pre |-> [unit |-> "MM", model |-> CreateModel("MM"), meshes |-> <<>>]]
    /\ calls = 0

\* lines 311-361 for the shape: the copy is meshed, its raw vertices and
\* triangles collected and deduplicated, the mesh object created.  last.arg
\* is the raw vertex list, last.ret the locals unique_vertices and vert_table
Deduplicate ==
    /\ last.op = "construct"
    /\ LET copied == DeepCopy(heap, 1)
           heap1 == IncrementalMesh(copied.heap, copied.ref)
           raw == CollectFaces(heap1[copied.ref].faces, <<>>, <<>>, 0)
       IN /\ ~IsDegenerateShape(raw)
          /\ heap' = heap1
          /\ model' = NewMeshObject(model, heap[1].label)
          /\ \E unique_vertices \in UniqueVertices(raw.verts) :
                last' = Call("dedup", raw.verts, "none",
                             [unique_vertices |-> unique_vertices,
                              vert_table |-> VertTable(raw.verts, unique_vertices)], <<>>)
    /\ calls' = calls + 1
    /\ UNCHANGED <<unit, meshes, files, hist>>

\* lines 365-397: the positions and the triangle loop, with the locals the
\* deduplication left.  last.arg is the raw triangles, last.ret.triangles_3mf
\* the list for SetGeometry; an exception ends add_shape, which releases the
\* copy
OrientTriangles ==
    /\ last.op = "dedup"
    /\ LET raw == CollectFaces(heap[0].faces, <<>>, <<>>, 0)
       IN \E t \in TriangleLoop(raw.tris, last.ret.vert_table,
                                 last.ret.unique_vertices, heap[1].center) :
             /\ last' = Call("triangles", raw.tris, t.exc,
                             [unique_vertices |-> last.ret.unique_vertices,
                              vert_table |-> last.ret.vert_table,
                              vertices_3mf |-> [i \in 1..Len(last.ret.unique_vertices) |->
                                                  PositionOf(last.ret.unique_vertices[i])],
                              triangles_3mf |-> t.tris], <<>>)
             /\ heap' = IF t.exc = "none" THEN heap ELSE [heap EXCEPT ![0] = NoShape]
    /\ calls' = calls + 1
    /\ UNCHANGED <<unit, model, meshes, files, hist>>

\* lines 399-431: geometry, colour, validity and manifold checks, mesh list
\* and build item; add_shape ends
Assemble ==
    /\ last.op = "triangles" /\ last.exc = "none"
    /\ LET st == [model |-> SetGeometry(model, last.ret.vertices_3mf, last.ret.triangles_3mf),
                  meshes |-> meshes, warns |-> <<>>, heap |-> heap]
           c == ColorStep(st, Unbound, heap[1].color)
           a == IF c.exc # "none" THEN c ELSE CheckAndAdd(c.st)
       IN /\ model' = a.st.model
          /\ meshes' = a.st.meshes
          /\ last' = Call("add_shape", <<1>>, a.exc, <<>>, a.st.warns)
    /\ heap' = [heap EXCEPT ![0] = NoShape]
    /\ calls' = calls + 1
    /\ UNCHANGED <<unit, files, hist>>

NextSteps == Deduplicate \/ OrientTriangles \/ Assemble

SpecSteps == InitSteps /\ [][NextSteps]_vars

(***************************************************************************)
(* Properties                                                              *)
(***************************************************************************)
\* the shapes the last add_shape call made a mesh object for, in order: the
\* flattened batch without the shapes skipped as degenerate, cut at the shape
\* that raised
NonDegenerate(ref) == ~IsDegenerateShape(CollectFaces(heap[ref].faces, <<>>, <<>>, 0))
MeshedRefs == SelectSeq(FlattenShapes(heap, last.arg), NonDegenerate)
NumNewObjects == Len(model.objects) - Len(last.pre.model.objects)
NewObject(k) == model.objects[Len(last.pre.model.objects) + k]
SourceOf(k) == heap[MeshedRefs[k]]

HasColorReference(mesh) ==
    \/ mesh.objProp # NoObjectProperty
    \/ \E k \in 1..Len(mesh.props) : mesh.props[k] # NoProperty

\* C1: ingesting a shape that has no colour never raises and leaves its mesh
\* without any triangle colour reference and without an object-level colour
\* reference, whether or not an earlier shape carried a colour
C1_NoColorNoReference ==
    last.op = "add_shape" =>
        /\ last.exc # "UnboundLocalError"
        /\ \A k \in 1..NumNewObjects :
              SourceOf(k).color = NoColor => ~HasColorReference(NewObject(k))

TriangleWellFormed(mesh, t) ==
    /\ Cardinality({t[1], t[2], t[3]}) = 3
    /\ \A i \in 1..3 : t[i] >= 0 /\ t[i] < Len(mesh.verts)

\* C2: every triangle handed to SetGeometry has 3 pairwise distinct vertex
\* indices, each in [0, vertexCount), vertexCount being the length of the
\* mesh's vertex buffer
C2_TrianglesWellFormed ==
    \A k \in 1..Len(model.objects) :
        \A j \in 1..Len(model.objects[k].tris) :
            TriangleWellFormed(model.objects[k], model.objects[k].tris[j])

\* a mesh that kept a triangle, lost another one to the degenerate filter and
\* merged raw vertices
C2_Witness ==
    /\ last.op = "add_shape"
    /\ Len(model.objects) = 1
    /\ LET raw == CollectFaces(heap[1].faces, <<>>, <<>>, 0)
           mesh == model.objects[1]
       IN /\ Len(mesh.tris) >= 1
          /\ Len(mesh.tris) < Len(raw.tris)
          /\ Len(mesh.verts) < Len(raw.verts)

\* the text after the last "." of a name (the whole name when it has none),
\* in lower case
LastDot(name) ==
    IF \E i \in 1..Len(name) : name[i] = "."
    THEN CHOOSE i \in 1..Len(name) :
            name[i] = "." /\ \A j \in (i + 1)..Len(name) : name[j] # "."
    ELSE 0
Extension(name) == Lower(SubSeq(name, LastDot(name) + 1, Len(name)))

DocumentUnchanged ==
    /\ meshes = last.pre.meshes
    /\ mesh_count = Len(last.pre.model.objects)
    /\ model_unit = last.pre.unit

\* C3: read or write of a name whose extension is neither 3mf nor stl raises
\* the format error and leaves mesh list, mesh count and unit as they were
C3_UnsupportedExtensionRejected ==
    (last.op \in {"read", "write"} /\ Extension(last.arg) \notin {Fmt3mf, FmtStl}) =>
        (last.exc = "ValueError" /\ DocumentUnchanged)

\* read of model.obj on a Mesher that holds a mesh
C3_Witness ==
    /\ last.op = "read" /\ last.arg = PathObj /\ last.exc = "ValueError"
    /\ Len(meshes) = 1

\* C4: an invalid mesh aborts only its own shape: earlier meshes stay, the
\* failed shape adds no mesh to the mesh list, every later shape of the call
\* is ingested
C4_InvalidShapeAbortsOnlyItself ==
    (last.op = "add_shape" /\ last.exc = "RuntimeError") =>
        /\ SubSeq(meshes, 1, Len(last.pre.meshes)) = last.pre.meshes
        /\ NewObject(NumNewObjects).id \notin Range(meshes)
        /\ NumNewObjects = Len(MeshedRefs)

\* C5: after a read that returns, the mesh list holds each mesh object of the
\* model exactly once and the list returned has one Shape per mesh
C5_OneShapePerMesh ==
    (last.op = "read" /\ last.exc = "none") =>
        /\ \A o \in Range(model.objects) :
              Cardinality({k \in 1..Len(meshes) : meshes[k] = o.id}) = 1
        /\ Len(last.ret) = mesh_count
        /\ Len(triangle_counts) = mesh_count

\* C6: read returns, or raises and leaves mesh list, mesh count and unit as
\* they were before the call
C6_ReadAllOrNothing ==
    (last.op = "read" /\ last.exc # "none") => DocumentUnchanged

\* C8: the unit is the one given at construction until a read returns, then
\* the unit of the file read last
C8_UnitFollowsConstructionAndRead ==
    model_unit = (IF hist.readUnit = "none" THEN hist.ctorUnit ELSE hist.readUnit)

\* the shapes of the last add_shape call, when they are two shapes with two
\* different colours and the call returned
TwoColours ==
    /\ last.op = "add_shape" /\ last.exc = "none"
    /\ Len(MeshedRefs) = 2 /\ NumNewObjects = 2
    /\ SourceOf(1).color # NoColor /\ SourceOf(2).color # NoColor
    /\ SourceOf(1).color # SourceOf(2).color

NewColorGroups ==
    SubSeq(model.colorGroups, Len(last.pre.model.colorGroups) + 1, Len(model.colorGroups))

RefersOnlyTo(mesh, group) ==
    /\ mesh.objProp = [rid |-> group.id, pid |-> 1]
    /\ \A k \in 1..Len(mesh.props) :
          mesh.props[k] = [rid |-> group.id, pids |-> <<1, 1, 1>>]

\* C9: two shapes with two different colours give exactly two palette
\* entries, and all corners and the object-level reference of each mesh
\* refer to the entry of its own shape
C9_OwnPaletteEntry ==
    TwoColours =>
        /\ Len(NewColorGroups) = 2
        /\ NewColorGroups[1].id # NewColorGroups[2].id
        /\ \A k \in 1..2 :
              /\ NewColorGroups[k].colors = <<FloatRGBAToColor(SourceOf(k).color)>>
              /\ RefersOnlyTo(NewObject(k), NewColorGroups[k])
              /\ ~RefersOnlyTo(NewObject(k), NewColorGroups[3 - k])

C9_Witness ==
    /\ TwoColours /\ last.arg = <<2, 3>>
    /\ Len(model.objects[2].tris) = 2

\* C10: the caller's shape objects are what they were before add_shape
C10_CallerShapesUntouched ==
    \A r \in 1..Len(CallerShapes) : heap[r] = CallerShapes[r]

\* an add_shape call that meshed two shapes and raised on the second
C10_Witness ==
    /\ last.op = "add_shape" /\ last.exc # "none" /\ NumNewObjects = 2

\* the shapes of the last add_shape call, flattened, and those of them the
\* loop reached: all of them when the call returned, else the shapes up to the
\* one that raised (the shape of the last mesh object the call created)
FlatBatch == FlattenShapes(heap, last.arg)
ReachedLen ==
    IF last.exc = "none" THEN Len(FlatBatch)
    ELSE LET S == {p \in 1..Len(FlatBatch) :
                     /\ NonDegenerate(FlatBatch[p])
                     /\ Len(SelectSeq(SubSeq(FlatBatch, 1, p), NonDegenerate)) = NumNewObjects}
         IN IF S = {} THEN 0 ELSE CHOOSE p \in S : TRUE
Reached == SubSeq(FlatBatch, 1, ReachedLen)
\* the mesh objects of the call that passed the validity check
NumAdded == IF last.exc = "none" THEN NumNewObjects ELSE NumNewObjects - 1
AddedIds == [k \in 1..NumAdded |-> NewObject(k).id]

\* the warnings the reached shapes call for, in order: k counts the mesh
\* objects made so far
RECURSIVE WarningsDue(_, _)
WarningsDue(refs, k) ==
    IF refs = <<>> THEN <<>>
    ELSE IF ~NonDegenerate(Head(refs)) THEN <<"degenerate">> \o WarningsDue(Tail(refs), k)
    ELSE (IF k + 1 <= NumAdded /\ ~IsManifoldAndOriented(NewObject(k + 1))
          THEN <<"not manifold">> ELSE <<>>) \o WarningsDue(Tail(refs), k + 1)

\* C11: a warning never ends add_shape: every degenerate shape reached is
\* warned about and adds no mesh object and no build item, every valid mesh
\* that is not manifold is warned about and is in the mesh list and among the
\* build items, and the loop stops before the end of the batch only at a shape
\* that raised an error
C11_WarningsDoNotAbort ==
    last.op = "add_shape" =>
        /\ last.warns = WarningsDue(Reached, 0)
        /\ NumNewObjects = Len(SelectSeq(Reached, NonDegenerate))
        /\ meshes = last.pre.meshes \o AddedIds
        /\ model.buildItems = last.pre.model.buildItems \o AddedIds
        /\ last.exc = "none" => Reached = FlatBatch
        /\ last.exc # "none" => (NumNewObjects >= 1 /\ ReachedLen >= 1)

\* a call that added a mesh that is not manifold and then went on to a
\* degenerate shape, which it skipped
C11_Witness ==
    /\ last.op = "add_shape" /\ last.exc = "none"
    /\ last.arg = <<2, 6>> /\ last.warns = <<"not manifold", "degenerate">>
    /\ meshes = last.pre.meshes \o <<NewObject(1).id>>

\* C12: a mesh read with more than one distinct (resource, colour index)
\* pair on its corners gives a warning, and the Shape made from it has the
\* colour of the first pair in triangle order and corner order
C12_FirstPairColour ==
    (last.op = "read" /\ last.exc = "none") =>
        \A k \in 1..Len(meshes) :
            LET pairs == ColorIndices(ObjectById(model, meshes[k]))
            IN Cardinality(Range(pairs)) > 1 =>
                  /\ "multiple colors" \in Range(last.warns)
                  /\ last.ret[k].color = ColorFrom8Bit(GetColor(model, pairs[1]))

\* the distinct elements of a list in the order of their first occurrence
RECURSIVE FirstOccurrences(_)
FirstOccurrences(seq) ==
    IF seq = <<>> THEN <<>>
    ELSE LET front == FirstOccurrences(SubSeq(seq, 1, Len(seq) - 1))
         IN IF seq[Len(seq)] \in Range(front) THEN front
            ELSE Append(front, seq[Len(seq)])

\* C13: the canonical buffer lists the distinct raw points in the order of
\* their first occurrence in the raw list, and the remap sends every raw
\* position to the index of its point in that order
C13_FirstOccurrenceOrder ==
    last.op = "dedup" =>
        /\ last.ret.unique_vertices = FirstOccurrences(last.arg)
        /\ last.ret.vert_table =
              [i \in 0..(Len(last.arg) - 1) |->
                  IndexOf(FirstOccurrences(last.arg), last.arg[i + 1])]

\* C14: on a raw list without two equal points the canonical buffer is the
\* raw list, in the same order, and the remap is the identity
C14_DedupIdempotent ==
    (last.op = "dedup" /\ Cardinality(Range(last.arg)) = Len(last.arg)) =>
        /\ last.ret.unique_vertices = last.arg
        /\ last.ret.vert_table = [i \in 0..(Len(last.arg) - 1) |-> i]

\* C18: the canonical buffer holds every distinct raw point exactly once, and
\* the remap sends every raw position to an entry with the coordinates of the
\* raw vertex at that position
C18_RemapCorrect ==
    last.op = "dedup" =>
        LET raw == last.arg
            unique_vertices == last.ret.unique_vertices
            vert_table == last.ret.vert_table
        IN /\ Range(unique_vertices) = Range(raw)
           /\ \A a, b \in 1..Len(unique_vertices) :
                 unique_vertices[a] = unique_vertices[b] => a = b
           /\ DOMAIN vert_table = 0..(Len(raw) - 1)
           /\ \A i \in 0..(Len(raw) - 1) :
                 /\ vert_table[i] \in 0..(Len(unique_vertices) - 1)
                 /\ unique_vertices[vert_table[i] + 1] = raw[i + 1]

\* a raw list with a point that occurs twice, deduplicated into a buffer that
\* is not in first-occurrence order
C18_Witness ==
    /\ last.op = "dedup"
    /\ Len(last.ret.unique_vertices) < Len(last.arg)
    /\ Len(last.ret.unique_vertices) >= 2
    /\ last.ret.unique_vertices # FirstOccurrences(last.arg)

\* the raw triangles of the shape of the steps (0-based raw positions), the
\* points of one of them, its normal by the right-hand rule and the vector
\* from its first point to the centre of the shape
RawOfShape == CollectFaces(heap[1].faces, <<>>, <<>>, 0)
PointsOf(t) == [i \in 1..3 |-> RawOfShape.verts[t[i] + 1]]
NormalOf(t) == VCross(VSub(PointsOf(t)[2], PointsOf(t)[1]), VSub(PointsOf(t)[3], PointsOf(t)[1]))
ToCentreOf(t) == VSub(heap[1].center, PointsOf(t)[1])
\* the angle between the two exists, is above 90 degrees, is 90 degrees
AngleDefined(t) == NormalOf(t) # VZero /\ ToCentreOf(t) # VZero
AngleAbove90(t) == VDot(NormalOf(t), ToCentreOf(t)) < 0
AngleIs90(t) == VDot(NormalOf(t), ToCentreOf(t)) = 0
\* the canonical indices of a raw triangle, in its own order and with its
\* 2nd and 3rd index swapped
InOwnOrder(t) == [i \in 1..3 |-> last.ret.vert_table[t[i]]]
Swapped(t) == <<InOwnOrder(t)[1], InOwnOrder(t)[3], InOwnOrder(t)[2]>>

\* C15: a raw triangle whose normal makes an angle above 90 degrees with the
\* vector to the centre of the shape is emitted in its own order, any other
\* with its 2nd and 3rd index swapped
C15_WindingPolicy ==
    (last.op = "triangles" /\ \A k \in 1..Len(last.arg) : AngleDefined(last.arg[k])) =>
        /\ last.exc = "none"
        /\ last.ret.triangles_3mf =
              [k \in 1..Len(last.arg) |->
                  IF AngleAbove90(last.arg[k]) THEN InOwnOrder(last.arg[k])
                  ELSE Swapped(last.arg[k])]

\* a triangle kept in its own order after a deduplication that renumbered
\* its vertices
C15_Witness ==
    /\ last.op = "triangles" /\ Len(last.arg) >= 1
    /\ \A k \in 1..Len(last.arg) : AngleDefined(last.arg[k])
    /\ AngleAbove90(last.arg[1])
    /\ last.ret.triangles_3mf[1] = InOwnOrder(last.arg[1])
    /\ last.ret.triangles_3mf[1] # last.arg[1]

\* C16 as stated: a triangle whose normal is at exactly 90 degrees to the
\* vector to the centre is emitted in its own order
C16_NoFlipAt90 ==
    (last.op = "triangles" /\ \A k \in 1..Len(last.arg) :
                                 AngleDefined(last.arg[k]) /\ AngleIs90(last.arg[k])) =>
        /\ last.exc = "none"
        /\ last.ret.triangles_3mf = [k \in 1..Len(last.arg) |-> InOwnOrder(last.arg[k])]

\* C16 amended: a triangle whose normal is at exactly 90 degrees to the
\* vector to the centre is emitted with its 2nd and 3rd index swapped
C16_FlipAt90 ==
    (last.op = "triangles" /\ \A k \in 1..Len(last.arg) :
                                 AngleDefined(last.arg[k]) /\ AngleIs90(last.arg[k])) =>
        /\ last.exc = "none"
        /\ last.ret.triangles_3mf = [k \in 1..Len(last.arg) |-> Swapped(last.arg[k])]

\* a triangle in the plane of the centre of its shape went through the loop
C16_Witness ==
    /\ last.op = "triangles" /\ Len(last.arg) >= 1
    /\ \A k \in 1..Len(last.arg) : AngleDefined(last.arg[k]) /\ AngleIs90(last.arg[k])
    /\ heap[1].center = <<2, 2, 0>>
    /\ Len(last.ret.triangles_3mf) = Len(last.arg)

\* what the loop hands on when a facet without a normal keeps its own order
\* and the others follow the winding policy
PassedOn(t) ==
    LET mapped == IF NormalOf(t) = VZero \/ AngleAbove90(t) THEN InOwnOrder(t)
                  ELSE Swapped(t)
    IN IF Cardinality(Range(mapped)) = 3 THEN <<mapped>> ELSE <<>>

\* C17: with a raw triangle whose points coincide or lie on a line, the
\* triangle loop raises nothing and hands that triangle on in its own order
\* unless its canonical indices coincide
C17_DegenerateFacetPassedOn ==
    (last.op = "triangles" /\ \E k \in 1..Len(last.arg) : NormalOf(last.arg[k]) = VZero) =>
        /\ last.exc = "none"
        /\ last.ret.triangles_3mf = Concat([k \in 1..Len(last.arg) |-> PassedOn(last.arg[k])])

====
